---- MODULE Spec2Model ----
(***************************************************************************)
(* State-machine model of the OAI-PMH harvester (src/oai_harverster.py).   *)
(*                                                                         *)
(* The disk (output segments, checkpoint file, its temporary sibling and   *)
(* the export sinks) outlives a process; the locals of harvest() do not.   *)
(* One behaviour is a sequence of invocations of harvest() with the same   *)
(* configuration against the same server, each of which may complete,      *)
(* abort on an exception, or be terminated from outside at any step.       *)
(*                                                                         *)
(* A segment file is a sequence of tokens: envelope tags, harvested items  *)
(* (numbered in server order), items of an earlier harvest ("old") and the *)
(* serialised response of a non-paginated verb ("resp").  Item text is     *)
(* ASCII here, so character offsets and byte offsets coincide.             *)
(*                                                                         *)
(* safe_open_url and extract_edm_field_from_record are modelled call by    *)
(* call under specifications of their own (SafeOpenUrlSpec, ExtractSpec);  *)
(* inside harvest() a fetch is one step that succeeds or raises.           *)
(***************************************************************************)
EXTENDS Integers, Sequences, FiniteSets, TLC

VARIABLES
    cfg,        \* arguments of harvest() and the server's content (constant)
    files,      \* segment index -> [ex, data]           (disk)
    stFile,     \* <out>.state.json                      (disk)
    tmpFile,    \* <out>.state.json.tmp                  (disk)
    csvFile,    \* rows in <base>.csv,   -1 = absent     (disk)
    jsonlFile,  \* rows in <base>.jsonl, -1 = absent     (disk)
    csvBuf,     \* rows written to the open csv handle, not yet flushed
    csv_writer, \* TRUE while the csv handle is open
    pc,         \* position of the process in harvest()
    state,      \* local 'state' (dict or None)
    num_items,  \* local
    file_index, \* local; current_out = out_path_for_index(file_index)
    params,     \* local; the query of the next page request: metadataPrefix
                \* ("" = not sent) and resumptionToken (0 = not sent); verb is
                \* always sent, set is carried exactly as metadataPrefix is
    page,       \* local page counter
    elements,   \* items of the page being processed
    ei,         \* position of the 'for el in elements' loop
    rt,         \* resumption token of the page being processed (0 = "")
    abortCause, \* why the invocation ended with an exception
    run,        \* number of invocations started so far
    h,          \* history of the behaviour (see HistInit)
    w,          \* what the current invocation wrote (see WroteInit)
    url_call,   \* one call of safe_open_url: arguments, locals, position
    edm_call,   \* one call of extract_edm_field_from_record
    amp_call,   \* one repair pass of fetch_and_parse (AMP_FIX.sub)
    wrap_call   \* one write_close_wrapper followed by ensure_open_wrapper

vars == <<cfg, files, stFile, tmpFile, csvFile, jsonlFile, csvBuf, csv_writer,
          pc, state, num_items, file_index, params, page, elements, ei, rt,
          abortCause, run, h, w, url_call, edm_call, amp_call, wrap_call>>

\* the functions modelled call by call, on their own
calls == <<url_call, edm_call, amp_call, wrap_call>>

disk == <<files, stFile, tmpFile, csvFile, jsonlFile>>
locals == <<state, num_items, file_index, params, page, elements, ei, rt>>

----------------------------------------------------------------------------
\* Bounds of the model

MaxTotal == 4
MaxPage == 2
MaxLimit == 2
MaxRotate == 2
MaxRuns == 2

\* enough segments for every file_index the bounded runs can reach
MaxSeg == MaxRuns * MaxTotal + 2

NoLimit == -1
NoRotate == 0

Min(a, b) == IF a < b THEN a ELSE b

----------------------------------------------------------------------------
\* Tokens and files

PaginatedVerbs == {"ListRecords", "ListIdentifiers"}
OtherVerb(v) == IF v = "ListRecords" THEN "ListIdentifiers" ELSE "ListRecords"

Tok(k, v, i) == [k |-> k, v |-> v, i |-> i]
Item(i) == Tok("item", "", i)
OldItem == Tok("old", "", 0)
Resp == Tok("resp", "", 0)

wrapper_open_tag(verb) == Tok("open", IF verb \in PaginatedVerbs THEN verb ELSE "", 0)

wrapper_close_tag(verb) == Tok("close", IF verb \in PaginatedVerbs THEN verb ELSE "", 0)

\* bytes of a token on disk
ItemBytes == 64
ByteLen(t) ==
    CASE t.k = "open"  -> (IF t.v = "ListRecords" THEN 24 ELSE IF t.v = "ListIdentifiers" THEN 28 ELSE 10)
      [] t.k = "close" -> (IF t.v = "ListRecords" THEN 26 ELSE IF t.v = "ListIdentifiers" THEN 30 ELSE 11)
      [] OTHER -> ItemBytes

RECURSIVE Size(_)
Size(s) == IF s = <<>> THEN 0 ELSE ByteLen(Head(s)) + Size(Tail(s))

Absent == [ex |-> FALSE, data |-> <<>>]
File(s) == [ex |-> TRUE, data |-> s]

TailWindow == 8192

\* number of trailing tokens of s that lie entirely within the last n bytes
RECURSIVE TailTokens(_, _)
TailTokens(s, n) ==
    IF s = <<>> \/ ByteLen(s[Len(s)]) > n THEN 0
    ELSE 1 + TailTokens(SubSeq(s, 1, Len(s) - 1), n - ByteLen(s[Len(s)]))

\* str.rfind over the tokens from position lo on: last position of t, 0 if none
RFind(s, lo, t) ==
    LET hits == {j \in lo..Len(s) : s[j] = t}
    IN IF hits = {} THEN 0 ELSE CHOOSE j \in hits : \A k \in hits : k <= j

ensure_open_wrapper(f, verb) ==
    IF ~f.ex \/ Size(f.data) = 0 THEN File(<<wrapper_open_tag(verb)>>)
    ELSE LET tail_len == Min(TailWindow, Size(f.data))
             first == Len(f.data) - TailTokens(f.data, tail_len) + 1
             idx == RFind(f.data, first, wrapper_close_tag(verb))
         IN IF idx # 0 THEN File(SubSeq(f.data, 1, idx - 1)) ELSE f

\* the closing tags are never appended
write_close_wrapper_NoWrite(f, verb) == File(f.data)

write_close_wrapper(f, verb) == File(f.data \o <<wrapper_close_tag(verb)>>)

AppendItem(f, t) == File(f.data \o <<t>>)

----------------------------------------------------------------------------
\* Checkpoint records

OutBase == "o"

NoState == [kind |-> "none", verb |-> "", out_base |-> "", prefix |-> "",
            file_index |-> 0, num_items |-> 0, rt |-> 0]

StateRec(verb, base, prefix, fi, n, t) ==
    [kind |-> "valid", verb |-> verb, out_base |-> base, prefix |-> prefix,
     file_index |-> fi, num_items |-> n, rt |-> t]

Corrupt == [NoState EXCEPT !.kind = "corrupt"]

NoAbort == [at |-> "", why |-> ""]

\* the checkpoint honoured whenever its verb is the invocation's
Matches_VerbOnly(st) == st.kind = "valid" /\ st.verb = cfg.verb

\* line 424: the loaded state is honoured only for the same verb and base
Matches(st) == st.kind = "valid" /\ st.verb = cfg.verb /\ st.out_base = OutBase

\* the value of 'params' before harvest() assigns it
NoParams == [prefix |-> "", rt |-> 0]

oai_params_first_call(metadata_prefix) == [prefix |-> metadata_prefix, rt |-> 0]

\* a token request that still carries the metadataPrefix
TokenParams_KeepPrefix(t) == [prefix |-> cfg.prefix, rt |-> t]

\* lines 430 and 534: {"verb": verb, "resumptionToken": rt}
TokenParams(t) == [prefix |-> "", rt |-> t]

\* a resumed run that starts over from the first page
ResumeParams_FirstCall(st) == oai_params_first_call(st.prefix)

ResumeParams(st) ==
    IF st.rt # 0 THEN TokenParams(st.rt) ELSE oai_params_first_call(st.prefix)

\* state.update without the resumption token
StateUpdate_NoToken(st, fi, n, t) == [st EXCEPT !.file_index = fi, !.num_items = n]

\* state.update without the file index
StateUpdate_NoIndex(st, fi, n, t) == [st EXCEPT !.num_items = n, !.rt = t]

\* state.update without the item count
StateUpdate_NoCount(st, fi, n, t) == [st EXCEPT !.file_index = fi, !.rt = t]

StateUpdate(st, fi, n, t) == [st EXCEPT !.file_index = fi, !.num_items = n, !.rt = t]

----------------------------------------------------------------------------
\* The server: cfg.T items in pages of cfg.P; the token is the offset of the
\* next page, absent on the last page

PageItems(p) ==
    [j \in 1..(Min(cfg.T, p.rt + cfg.P) - p.rt) |-> p.rt + j]

PageToken(p) == IF p.rt + cfg.P < cfg.T THEN p.rt + cfg.P ELSE 0

----------------------------------------------------------------------------
\* Conditions of harvest()

Paginated == cfg.verb \in PaginatedVerbs

\* the prefix check done for ListRecords only
NeedsPrefixCheck_RecordsOnly == cfg.verb = "ListRecords" /\ cfg.prefix # ""

NeedsPrefixCheck == Paginated /\ cfg.prefix # ""

\* the limit compared with > instead of >=
LimitReached_OffByOne(n) == cfg.max_items # NoLimit /\ n > cfg.max_items

LimitReached(n) == cfg.max_items # NoLimit /\ n >= cfg.max_items

RotationDue(n) == cfg.rotate_every # NoRotate /\ n > 0 /\ n % cfg.rotate_every = 0

CsvOn == cfg.dump_mode \in {"csv", "beide"}
JsonlOn == cfg.dump_mode \in {"jsonl", "beide"}

----------------------------------------------------------------------------
\* Initial states

Disk0(kind, verb) ==
    [i \in 1..MaxSeg |->
        CASE kind = "base_same" /\ i = 1 ->
                File(<<wrapper_open_tag(verb), OldItem, wrapper_close_tag(verb)>>)
          [] kind = "base_other" /\ i = 1 ->
                File(<<wrapper_open_tag(OtherVerb(verb)), OldItem, wrapper_close_tag(OtherVerb(verb))>>)
          [] kind = "part_same" /\ i = 2 ->
                File(<<wrapper_open_tag(verb), OldItem, wrapper_close_tag(verb)>>)
          [] OTHER -> Absent]

HistInit(clean) ==
    [clean |-> clean,       \* clean disk at the start, every stop so far was
                            \* a stop after a saved page, no restart, no rerun
     resumed |-> FALSE,     \* some invocation resumed from a checkpoint
     restarted |-> FALSE,   \* some invocation chose restart
     reran |-> FALSE,       \* an invocation started after a completed one
     loopStops |-> TRUE]    \* every stop so far was inside the paging loop

WroteInit ==
    [xml |-> 0, csv |-> 0, jsonl |-> 0,   \* items / rows written
     start |-> 0,                         \* num_items at the state init
     first |-> 1,                         \* file_index at the state init
     decision |-> "",                     \* "fresh", "resume" or "restart"
     seals |-> [i \in 1..MaxSeg |-> 0]]   \* write_close_wrapper calls per segment

AllConfigs ==
    [verb : {"ListRecords", "ListIdentifiers", "GetRecord"},
     prefix : {"", "edm"},
     identify_ok : BOOLEAN,     \* the server answers Identify with parsable XML
     advertised : BOOLEAN,      \* the server lists the prefix in ListMetadataFormats
     max_items : {NoLimit} \cup 0..MaxLimit,
     rotate_every : {NoRotate} \cup 1..MaxRotate,
     dump_mode : {"geen", "csv", "jsonl", "beide"},
     P : 1..MaxPage,
     T : 0..MaxTotal,
     disk0 : {"clean", "base_same", "base_other", "part_same"},
     st0 : {"absent", "corrupt", "other_verb", "other_base"}]

\* The configurations explored: four families, each varying the arguments
\* that interact and fixing the others.
Usual(c) ==
    /\ c.prefix = "edm" /\ c.identify_ok /\ c.advertised /\ c.st0 = "absent"

\* paging against limit, rotation and page size
PagingConfig(c) ==
    /\ Usual(c) /\ c.verb = "ListRecords" /\ c.dump_mode = "geen" /\ c.disk0 = "clean"

\* earlier output at the output paths
StaleConfig(c) ==
    /\ Usual(c) /\ c.verb \in PaginatedVerbs /\ c.dump_mode = "geen"
    /\ c.disk0 # "clean" /\ c.max_items = NoLimit /\ c.P = MaxPage

\* export sinks against limit and page size
SinkConfig(c) ==
    /\ Usual(c) /\ c.verb = "ListRecords" /\ c.rotate_every = NoRotate /\ c.disk0 = "clean"
    /\ c.P = MaxPage

\* preflight outcomes, checkpoint found at the start, verb
EnvConfig(c) ==
    /\ c.max_items = NoLimit /\ c.rotate_every = NoRotate /\ c.dump_mode = "geen"
    /\ c.P = 1 /\ c.T <= 1 /\ c.disk0 = "clean"

Configs ==
    {c \in AllConfigs : PagingConfig(c) \/ StaleConfig(c) \/ SinkConfig(c) \/ EnvConfig(c)}

\* harvest() not yet invoked, with the disk that cfg describes
HarvestInit ==
    /\ files = Disk0(cfg.disk0, cfg.verb)
    /\ stFile = CASE cfg.st0 = "absent" -> NoState
                  [] cfg.st0 = "corrupt" -> Corrupt
                  [] cfg.st0 = "other_verb" -> StateRec(OtherVerb(cfg.verb), OutBase, "edm", 2, 2, 1)
                  [] OTHER -> StateRec(cfg.verb, "p", "edm", 2, 2, 1)
    /\ tmpFile = NoState
    /\ csvFile = -1
    /\ jsonlFile = -1
    /\ csvBuf = 0
    /\ csv_writer = FALSE
    /\ pc = "idle"
    /\ state = NoState
    /\ num_items = 0
    /\ file_index = 1
    /\ params = NoParams
    /\ page = 0
    /\ elements = <<>>
    /\ ei = 1
    /\ rt = 0
    /\ abortCause = NoAbort
    /\ run = 0
    /\ h = HistInit(cfg.disk0 = "clean")
    /\ w = WroteInit

----------------------------------------------------------------------------
\* safe_open_url (lines 114-168), one call.  Waits are in one time unit for
\* backoff and Retry-After alike.

MaxRetries == 3
MaxBackoff == 2
MaxRetryAfter == 3

NotCalled == [pc |-> "not_called"]

\* the Retry-After header: missing or empty, not a number, or seconds
NoHeader == -1
NotSeconds == -2
RetryAfters == {NoHeader, NotSeconds} \cup 0..MaxRetryAfter

Max(a, b) == IF a > b THEN a ELSE b

\* what urlopen and the read of the body can come to
OkReplies ==
    {r \in [kind : {"ok"}, status : {200}, retry_after : {NoHeader},
            ce : {"", "gzip", "deflate"}, intact : BOOLEAN] : r.ce = "" => r.intact}

HttpErrors ==
    [kind : {"http"}, status : {429, 500, 503}, retry_after : RetryAfters,
     ce : {""}, intact : {TRUE}]

UrlErrors ==
    [kind : {"net"}, status : {0}, retry_after : {NoHeader}, ce : {""}, intact : {TRUE}]

Replies == OkReplies \cup HttpErrors \cup UrlErrors

NoReply == [kind |-> "none", status |-> 0, retry_after |-> NoHeader, ce |-> "", intact |-> TRUE]

\* the exception a reply raises inside the try block: HTTPError, another
\* transport error, or the error of gzip.decompress / zlib.decompress
Raised(reply) == IF reply.kind = "ok" THEN [reply EXCEPT !.kind = "decompress"] ELSE reply

\* the wait of the HTTPError handler without the Retry-After header
Wait_BackoffOnly(backoff, attempt, e) == backoff * (attempt + 1)

\* lines 147-152 (HTTPError) and line 163 (any other exception)
Wait(backoff, attempt, e) ==
    LET wait == backoff * (attempt + 1)
    IN IF e.kind = "http" /\ e.status \in {429, 503} /\ e.retry_after # NoHeader
       THEN (IF e.retry_after = NotSeconds THEN wait ELSE Max(wait, e.retry_after))
       ELSE wait

Calls ==
    [pc : {"for"}, retries : 0..MaxRetries, backoff : 0..MaxBackoff, attempt : {0},
     last_err : {NoReply}, wait : {0}, gets : {0}, sleeps : {0}, result : {NoReply}]

harvest_vars == <<cfg, files, stFile, tmpFile, csvFile, jsonlFile, csvBuf, csv_writer,
                  pc, state, num_items, file_index, params, page, elements, ei, rt,
                  abortCause, run, h, w>>

\* line 121 'for attempt in range(retries)' and, once the range is used up,
\* lines 167-168: raise last_err if there is one; otherwise the function
\* ends without a return statement
ForAttempt ==
    /\ url_call.pc = "for"
    /\ url_call' = [url_call EXCEPT !.pc =
                        IF url_call.attempt < url_call.retries THEN "urlopen"
                        ELSE IF url_call.last_err # NoReply THEN "raised"
                        ELSE "returned_none"]
    /\ UNCHANGED <<harvest_vars, edm_call, amp_call, wrap_call>>

\* lines 123-139: the GET, the read, the decompression, the return
UrlOpenReturns ==
    /\ url_call.pc = "urlopen"
    /\ \E reply \in OkReplies :
          /\ reply.intact
          /\ url_call' = [url_call EXCEPT !.pc = "returned", !.gets = @ + 1,
                                          !.result = reply]
    /\ UNCHANGED <<harvest_vars, edm_call, amp_call, wrap_call>>

\* lines 141-165: an exception inside the try block, whichever statement
\* raised it, is handled by one of the two handlers
UrlOpenRaises ==
    /\ url_call.pc = "urlopen"
    /\ \E reply \in Replies :
          /\ reply.kind = "ok" => ~reply.intact
          /\ LET e == Raised(reply)
                 final == url_call.attempt = url_call.retries - 1
             IN url_call' = [url_call EXCEPT
                    !.gets = @ + 1,
                    !.last_err = e,
                    !.wait = IF final /\ e.kind # "http" THEN @
                             ELSE Wait(url_call.backoff, url_call.attempt, e),
                    !.pc = IF final THEN "raised" ELSE "sleep"]
    /\ UNCHANGED <<harvest_vars, edm_call, amp_call, wrap_call>>

\* lines 157 and 165: time.sleep(wait), then the next attempt
Sleep ==
    /\ url_call.pc = "sleep"
    /\ url_call' = [url_call EXCEPT !.pc = "for", !.attempt = @ + 1, !.sleeps = @ + 1]
    /\ UNCHANGED <<harvest_vars, edm_call, amp_call, wrap_call>>

SafeOpenUrlInit ==
    /\ cfg \in {c \in Configs : PagingConfig(c) /\ c.T = 0 /\ c.P = 1
                                 /\ c.max_items = NoLimit /\ c.rotate_every = NoRotate}
    /\ HarvestInit
    /\ url_call \in Calls
    /\ edm_call = NotCalled
    /\ amp_call = NotCalled
    /\ wrap_call = NotCalled

SafeOpenUrlNext == ForAttempt \/ UrlOpenReturns \/ UrlOpenRaises \/ Sleep

SafeOpenUrlSpec == SafeOpenUrlInit /\ [][SafeOpenUrlNext]_vars

----------------------------------------------------------------------------
\* extract_edm_field_from_record (lines 323-335), one call.  An element is
\* absent or has a text (none, whitespace only, or a value, which is named
\* after the element's tag here) and a number of child elements.

MaxChildren == 1

AbsentEl(tag) == [tag |-> tag, present |-> FALSE, text |-> "none", children |-> 0]

Elements(tag) ==
    {AbsentEl(tag)} \cup
    [tag : {tag}, present : {TRUE}, text : {"none", "blank", "value"},
     children : 0..MaxChildren]

\* the record: with or without oai:metadata, and in it the first
\* edm:isShownAt, edm:isShownBy and dc:identifier in document order
Records ==
    {r \in [md : BOOLEAN, at : Elements("edm:isShownAt"), by : Elements("edm:isShownBy"),
            id : Elements("dc:identifier")] :
        ~r.md => (~r.at.present /\ ~r.by.present /\ ~r.id.present)}

\* requested fields: the three above and one the record does not have
Fields == {"edm:isShownAt", "edm:isShownBy", "dc:identifier", "dc:title"}

\* md.find(xpath, nsmap): the first matching element, None if there is none
Find(r, qname) ==
    CASE qname = "edm:isShownAt" -> r.at
      [] qname = "edm:isShownBy" -> r.by
      [] qname = "dc:identifier" -> r.id
      [] OTHER -> AbsentEl(qname)

\* 'el is not None and el.text'
HasText(el) == el.present /\ el.text # "none"

\* el.text.strip()
Strip(el) == IF el.text = "value" THEN el.tag ELSE ""

\* the truth value of an Element: whether it has child elements
Truthy(el) == el.present /\ el.children > 0

\* line 332: a or b
Or(a, b) == IF Truthy(a) THEN a ELSE b

extract_edm_field_from_record(record_el, edm_field_qname) ==
    IF ~record_el.md THEN ""
    ELSE LET el == Find(record_el, edm_field_qname)
         IN IF HasText(el) THEN Strip(el)
            ELSE IF edm_field_qname = "edm:isShownAt"
                 THEN LET el2 == Or(Find(record_el, "edm:isShownBy"),
                                    Find(record_el, "dc:identifier"))
                      IN IF HasText(el2) THEN Strip(el2) ELSE ""
                 ELSE ""

ExtractReturns ==
    /\ edm_call.pc = "called"
    /\ edm_call' = [edm_call EXCEPT
           !.pc = "returned",
           !.value = extract_edm_field_from_record(edm_call.record_el,
                                                   edm_call.edm_field_qname)]
    /\ UNCHANGED <<harvest_vars, url_call, amp_call, wrap_call>>

ExtractInit ==
    /\ cfg \in {c \in Configs : PagingConfig(c) /\ c.T = 0 /\ c.P = 1
                                 /\ c.max_items = NoLimit /\ c.rotate_every = NoRotate}
    /\ HarvestInit
    /\ url_call = NotCalled
    /\ edm_call \in [pc : {"called"}, record_el : Records, edm_field_qname : Fields,
                     value : {""}]
    /\ amp_call = NotCalled
    /\ wrap_call = NotCalled

ExtractNext == ExtractReturns

ExtractSpec == ExtractInit /\ [][ExtractNext]_vars

----------------------------------------------------------------------------
\* The repair pass of fetch_and_parse (line 42 and lines 191-192), one call.
\* A text is a sequence of characters of a small alphabet: the three
\* characters of a reference, a letter that is no hexadecimal digit ("x"), a
\* letter that is one ("a"), a digit, a name character that is neither ("-")
\* and a character of none of these kinds (" ").

MaxLen == 5

Letters == {"x", "a", "m", "p"}
Digits == {"1"}
HexDigits == {"a", "1"}
Alphabet == {"&", "#", ";", "x", "a", "1", "-", " "}

RECURSIVE Texts(_)
Texts(n) ==
    IF n = 0 THEN {<<>>}
    ELSE Texts(n - 1) \cup {Append(t, c) : t \in {u \in Texts(n - 1) : Len(u) = n - 1}, c \in Alphabet}

\* the negative lookahead of AMP_FIX, (?![A-Za-z#][A-Za-z0-9]*;), fails at
\* the "&" at position i: the text goes on with one letter or "#", any number
\* of letters and digits, and ";"
LookaheadMatches(s, i) ==
    \E j \in (i + 2)..Len(s) :
        /\ s[j] = ";"
        /\ s[i + 1] \in Letters \cup {"#"}
        /\ \A k \in (i + 2)..(j - 1) : s[k] \in Letters \cup Digits

\* AMP_FIX.sub("&amp;", s), from position i on
RECURSIVE SubFrom(_, _)
SubFrom(s, i) ==
    IF i > Len(s) THEN <<>>
    ELSE (IF s[i] = "&" /\ ~LookaheadMatches(s, i)
          THEN <<"&", "a", "m", "p", ";">>
          ELSE <<s[i]>>) \o SubFrom(s, i + 1)

AMP_FIX_sub(s) == SubFrom(s, 1)

Repairs ==
    /\ amp_call.pc = "parse_failed"
    /\ amp_call' = [amp_call EXCEPT !.pc = "repaired", !.repaired = AMP_FIX_sub(amp_call.text)]
    /\ UNCHANGED <<harvest_vars, url_call, edm_call, wrap_call>>

\* the pass applied to its own result
RepairsAgain ==
    /\ amp_call.pc = "repaired"
    /\ amp_call' = [amp_call EXCEPT !.pc = "repaired_again",
                                    !.again = AMP_FIX_sub(amp_call.repaired)]
    /\ UNCHANGED <<harvest_vars, url_call, edm_call, wrap_call>>

RepairInit ==
    /\ cfg \in {c \in Configs : PagingConfig(c) /\ c.T = 0 /\ c.P = 1
                                 /\ c.max_items = NoLimit /\ c.rotate_every = NoRotate}
    /\ HarvestInit
    /\ url_call = NotCalled
    /\ edm_call = NotCalled
    /\ amp_call \in [pc : {"parse_failed"}, text : Texts(MaxLen), repaired : {<<>>},
                     again : {<<>>}]
    /\ wrap_call = NotCalled

RepairNext == Repairs \/ RepairsAgain

RepairSpec == RepairInit /\ [][RepairNext]_vars

----------------------------------------------------------------------------
\* write_close_wrapper followed by ensure_open_wrapper on one segment, byte
\* by byte (lines 220-246).  A file is a sequence of bytes.  The bytes of a
\* tag are ASCII, Tok(k, v, i) being byte i of the tag Tok(k, v, 0); an item
\* character is one ASCII byte, or a lead byte announcing n bytes followed by
\* n - 1 continuation bytes.

MaxChars == 4
MaxCharBytes == 3

AsciiByte == Tok("ascii", "", 1)
LeadByte(n) == Tok("lead", "", n)
ContByte == Tok("cont", "", 0)

\* str.encode("utf-8") of a tag
TagBytes(t) == [i \in 1..ByteLen(t) |-> Tok(t.k, t.v, i)]

\* the UTF-8 encoding of one character of n bytes
CharBytes(n) == IF n = 1 THEN <<AsciiByte>> ELSE <<LeadByte(n)>> \o [i \in 1..(n - 1) |-> ContByte]

\* the item bytes a segment can hold: up to n characters, encoded
RECURSIVE ItemTexts(_)
ItemTexts(n) ==
    IF n = 0 THEN {<<>>}
    ELSE ItemTexts(n - 1) \cup {t \o CharBytes(b) : t \in ItemTexts(n - 1), b \in 1..MaxCharBytes}

\* bytes.decode("utf-8", errors="ignore"), line 235: a complete character
\* gives one character (written as its first byte), a byte that begins none
\* (a continuation byte on its own, a lead byte short of its continuation
\* bytes) is dropped
Complete(bs, i) ==
    /\ bs[i].k = "lead"
    /\ i + bs[i].i - 1 <= Len(bs)
    /\ \A j \in (i + 1)..(i + bs[i].i - 1) : bs[j] = ContByte

RECURSIVE DecodeFrom(_, _)
DecodeFrom(bs, i) ==
    IF i > Len(bs) THEN <<>>
    ELSE IF bs[i].k \in {"lead", "cont"}
         THEN IF Complete(bs, i) THEN <<bs[i]>> \o DecodeFrom(bs, i + bs[i].i)
              ELSE DecodeFrom(bs, i + 1)
         ELSE <<bs[i]>> \o DecodeFrom(bs, i + 1)

decode(bs) == DecodeFrom(bs, 1)

\* str.rfind: the highest index (from 0) at which sub occurs in s, -1 if none
rfind(s, sub) ==
    LET hits == {p \in 0..(Len(s) - Len(sub)) : SubSeq(s, p + 1, p + Len(sub)) = sub}
    IN IF hits = {} THEN -1 ELSE CHOOSE p \in hits : \A q \in hits : q <= p

\* lines 244-246
write_close_bytes(bs, verb) == bs \o TagBytes(wrapper_close_tag(verb))

\* lines 232-241 on an existing file of at least one byte: the offset the
\* file is truncated at, its size when nothing is truncated
TruncateAt(bs, verb) ==
    LET tail_len == Min(TailWindow, Len(bs))
        tail == decode(SubSeq(bs, Len(bs) - tail_len + 1, Len(bs)))
        idx == rfind(tail, TagBytes(wrapper_close_tag(verb)))
    IN IF idx # -1 THEN Len(bs) - tail_len + idx ELSE Len(bs)

ensure_open_bytes(bs, verb) == SubSeq(bs, 1, TruncateAt(bs, verb))

Seals ==
    /\ wrap_call.pc = "open"
    /\ wrap_call' = [wrap_call EXCEPT !.pc = "sealed",
                                      !.file = write_close_bytes(wrap_call.file, wrap_call.verb)]
    /\ UNCHANGED <<harvest_vars, url_call, edm_call, amp_call>>

Reopens ==
    /\ wrap_call.pc = "sealed"
    /\ wrap_call' = [wrap_call EXCEPT !.pc = "reopened",
                                      !.cut = TruncateAt(wrap_call.file, wrap_call.verb),
                                      !.file = ensure_open_bytes(wrap_call.file, wrap_call.verb)]
    /\ UNCHANGED <<harvest_vars, url_call, edm_call, amp_call>>

\* an open segment: the opening tags and the items appended so far
OpenSegments(verb) == {TagBytes(wrapper_open_tag(verb)) \o t : t \in ItemTexts(MaxChars)}

SealReopenInit ==
    /\ cfg \in {c \in Configs : PagingConfig(c) /\ c.T = 0 /\ c.P = 1
                                 /\ c.max_items = NoLimit /\ c.rotate_every = NoRotate}
    /\ HarvestInit
    /\ url_call = NotCalled
    /\ edm_call = NotCalled
    /\ amp_call = NotCalled
    /\ \E verb \in PaginatedVerbs : \E content \in OpenSegments(verb) :
          wrap_call = [pc |-> "open", verb |-> verb, content |-> content,
                       file |-> content, cut |-> 0]

SealReopenNext == Seals \/ Reopens

SealReopenSpec == SealReopenInit /\ [][SealReopenNext]_vars


Init ==
    /\ cfg \in Configs
    /\ HarvestInit
    /\ url_call = NotCalled
    /\ edm_call = NotCalled
    /\ amp_call = NotCalled
    /\ wrap_call = NotCalled

----------------------------------------------------------------------------
\* Ends of an invocation

Outcomes == {"ok", "fetch_error", "xml_error"}

PreLoopPcs == {"preflight_identify", "preflight_prefix", "load_state", "state_init",
               "restart_truncate", "restart_remove", "init_save_tmp", "init_save_dump",
               "init_save_replace",
               "ensure_open", "open_csv"}

LoopPcs == {"loop_top", "fetch", "write_items", "rotate_seal", "rotate_open",
            "update_state", "save_tmp", "save_dump", "save_replace", "after_save",
            "final_seal", "remove_state"}

SinglePcs == {"single_fetch", "single_write", "single_remove"}

RunningPcs == PreLoopPcs \cup LoopPcs \cup SinglePcs

\* the process stops between two pages: the last page's items are written
\* and its checkpoint, which carries a token, is in place
StopAfterSavedPage ==
    /\ pc \in {"preflight_identify", "preflight_prefix", "load_state", "state_init",
               "ensure_open", "open_csv", "after_save", "loop_top", "fetch"}
    /\ Matches(stFile)
    /\ stFile.rt # 0
    /\ (pc \in {"ensure_open", "open_csv", "after_save", "loop_top", "fetch"} => state = stFile)

Stopped(hh) ==
    [hh EXCEPT !.clean = @ /\ StopAfterSavedPage, !.loopStops = @ /\ pc \in LoopPcs]

\* an exception leaves harvest(); inside the try block 'finally' closes the csv
Abort(cause) ==
    /\ pc' = "aborted"
    /\ abortCause' = [at |-> pc, why |-> cause]
    /\ csvFile' = csvFile + csvBuf
    /\ csvBuf' = 0
    /\ csv_writer' = FALSE
    /\ h' = Stopped(h)

\* the locals of an invocation that has not begun, or whose process is gone
NoLocals ==
    /\ state' = NoState
    /\ num_items' = 0
    /\ file_index' = 1
    /\ params' = NoParams
    /\ page' = 0
    /\ elements' = <<>>
    /\ ei' = 1
    /\ rt' = 0

\* the process is terminated from outside; rows buffered in the csv handle
\* reach the file (interrupt, handle closed) or are lost (kill); what the
\* process held in memory is gone
Crash ==
    /\ pc \in RunningPcs
    /\ pc' = "stopped"
    /\ \E flush \in BOOLEAN : csvFile' = IF flush THEN csvFile + csvBuf ELSE csvFile
    /\ csvBuf' = 0
    /\ csv_writer' = FALSE
    /\ h' = Stopped(h)
    /\ NoLocals
    /\ w' = WroteInit
    /\ UNCHANGED <<cfg, calls, files, stFile, tmpFile, jsonlFile, abortCause, run>>

Start ==
    /\ pc \in {"idle", "done", "aborted", "stopped"}
    /\ run < MaxRuns
    /\ run' = run + 1
    /\ pc' = "preflight_identify"
    /\ NoLocals
    /\ abortCause' = NoAbort
    /\ w' = WroteInit
    /\ h' = IF pc = "done" THEN [h EXCEPT !.reran = TRUE, !.clean = FALSE] ELSE h
    /\ UNCHANGED <<cfg, calls, disk, csvBuf, csv_writer>>

----------------------------------------------------------------------------
\* Preflight and checkpoint load (lines 352-362)

PreflightIdentify ==
    /\ pc = "preflight_identify"
    \* whether Identify succeeds or raises (cfg.identify_ok), the exception is
    \* caught and logged and the run goes on
    /\ pc' = IF NeedsPrefixCheck THEN "preflight_prefix" ELSE "load_state"
    /\ UNCHANGED <<cfg, calls, disk, csvBuf, csv_writer, locals, abortCause, run, h, w>>

PreflightPrefix ==
    /\ pc = "preflight_prefix"
    /\ \E o \in Outcomes :
          IF o # "ok" THEN
              /\ Abort(o)
              /\ UNCHANGED <<cfg, calls, files, stFile, tmpFile, jsonlFile, locals, run, w>>
          ELSE IF ~cfg.advertised THEN
              /\ Abort("prefix")
              /\ UNCHANGED <<cfg, calls, files, stFile, tmpFile, jsonlFile, locals, run, w>>
          ELSE
              /\ pc' = "load_state"
              /\ UNCHANGED <<cfg, calls, disk, csvBuf, csv_writer, locals, abortCause, run, h, w>>

LoadState ==
    /\ pc = "load_state"
    /\ IF stFile.kind = "corrupt" THEN
           \* json.load raises; nothing catches it
           /\ Abort("corrupt_state")
           /\ UNCHANGED <<cfg, calls, files, stFile, tmpFile, jsonlFile, locals, run, w>>
       ELSE
           /\ state' = stFile
           /\ pc' = IF Paginated THEN "state_init" ELSE "single_fetch"
           /\ UNCHANGED <<cfg, calls, disk, csvBuf, csv_writer, num_items, file_index, params,
                          page, elements, ei, rt, abortCause, run, h, w>>

----------------------------------------------------------------------------
\* Non-paginated verbs (lines 365-379)

SingleFetch ==
    /\ pc = "single_fetch"
    /\ \E o \in Outcomes :
          IF o # "ok" THEN
              /\ Abort(o)
              /\ UNCHANGED <<cfg, calls, files, stFile, tmpFile, jsonlFile, locals, run, w>>
          ELSE
              /\ pc' = "single_write"
              /\ UNCHANGED <<cfg, calls, disk, csvBuf, csv_writer, locals, abortCause, run, h, w>>

SingleWrite ==
    /\ pc = "single_write"
    /\ files' = [files EXCEPT ![1] =
                    File(<<wrapper_open_tag(cfg.verb), Resp, wrapper_close_tag(cfg.verb)>>)]
    /\ pc' = "single_remove"
    /\ UNCHANGED <<cfg, calls, stFile, tmpFile, csvFile, jsonlFile, csvBuf, csv_writer, locals,
                   abortCause, run, h, w>>

SingleRemove ==
    /\ pc = "single_remove"
    /\ stFile' = NoState
    /\ pc' = "done"
    /\ UNCHANGED <<cfg, calls, files, tmpFile, csvFile, jsonlFile, csvBuf, csv_writer, locals,
                   abortCause, run, h, w>>

----------------------------------------------------------------------------
\* State init (lines 423-458)

StateInit ==
    /\ pc = "state_init"
    /\ IF Matches(state) THEN
           \E resume \in BOOLEAN :
              IF resume THEN
                  /\ num_items' = state.num_items
                  /\ params' = ResumeParams(state)
                  /\ file_index' = state.file_index
                  /\ pc' = "ensure_open"
                  /\ h' = [h EXCEPT !.resumed = TRUE]
                  /\ w' = [w EXCEPT !.start = state.num_items, !.first = state.file_index,
                                    !.decision = "resume"]
                  /\ UNCHANGED state
              ELSE
                  /\ state' = NoState
                  /\ num_items' = 0
                  /\ file_index' = 1
                  /\ pc' = "restart_truncate"
                  /\ h' = [h EXCEPT !.restarted = TRUE, !.clean = FALSE]
                  /\ w' = [w EXCEPT !.decision = "restart"]
                  /\ UNCHANGED params
       ELSE
           /\ num_items' = 0
           /\ file_index' = 1
           /\ params' = oai_params_first_call(cfg.prefix)
           /\ state' = StateRec(cfg.verb, OutBase, cfg.prefix, 1, 0, 0)
           /\ pc' = "init_save_tmp"
           /\ w' = [w EXCEPT !.decision = "fresh"]
           /\ UNCHANGED h
    /\ UNCHANGED <<cfg, calls, disk, csvBuf, csv_writer, page, elements, ei, rt, abortCause, run>>

RestartTruncate ==
    /\ pc = "restart_truncate"
    /\ files' = [files EXCEPT ![file_index] = File(<<>>)]
    /\ pc' = "restart_remove"
    /\ UNCHANGED <<cfg, calls, stFile, tmpFile, csvFile, jsonlFile, csvBuf, csv_writer, locals,
                   abortCause, run, h, w>>

RestartRemove ==
    /\ pc = "restart_remove"
    /\ stFile' = NoState
    /\ params' = oai_params_first_call(cfg.prefix)
    /\ pc' = "ensure_open"
    /\ UNCHANGED <<cfg, calls, files, tmpFile, csvFile, jsonlFile, csvBuf, csv_writer, state,
                   num_items, file_index, page, elements, ei, rt, abortCause, run, h, w>>

\* save_state writes the new state straight to the checkpoint path
save_state_target_InPlace == "path"

\* line 264: save_state writes to tmp = path + ".tmp"
save_state_target == "tmp"

\* the file save_state writes gets content c
SaveWrite(c) ==
    IF save_state_target = "tmp"
    THEN tmpFile' = c /\ UNCHANGED stFile
    ELSE stFile' = c /\ UNCHANGED tmpFile

\* save_state, line 265: open(tmp, "w") creates or truncates the file; until
\* json.dump is through and the handle closed, the file holds no complete JSON
SaveTmp ==
    /\ pc \in {"init_save_tmp", "save_tmp"}
    /\ SaveWrite(Corrupt)
    /\ pc' = IF pc = "init_save_tmp" THEN "init_save_dump" ELSE "save_dump"
    /\ UNCHANGED <<cfg, calls, files, csvFile, jsonlFile, csvBuf, csv_writer, locals,
                   abortCause, run, h, w>>

\* save_state, line 266: json.dump and the close of the handle
SaveDump ==
    /\ pc \in {"init_save_dump", "save_dump"}
    /\ SaveWrite(state)
    /\ pc' = IF pc = "init_save_dump" THEN "init_save_replace" ELSE "save_replace"
    /\ UNCHANGED <<cfg, calls, files, csvFile, jsonlFile, csvBuf, csv_writer, locals,
                   abortCause, run, h, w>>

\* save_state, line 267: os.replace(tmp, path)
SaveReplace ==
    /\ pc \in {"init_save_replace", "save_replace"}
    /\ IF save_state_target = "tmp"
       THEN stFile' = tmpFile /\ tmpFile' = NoState
       ELSE UNCHANGED <<stFile, tmpFile>>
    /\ pc' = IF pc = "init_save_replace" THEN "ensure_open" ELSE "after_save"
    /\ UNCHANGED <<cfg, calls, files, csvFile, jsonlFile, csvBuf, csv_writer, locals,
                   abortCause, run, h, w>>

----------------------------------------------------------------------------
\* Open wrapper and dumpers (lines 460-463)

EnsureOpen ==
    /\ pc = "ensure_open"
    /\ files' = [files EXCEPT ![file_index] = ensure_open_wrapper(@, cfg.verb)]
    /\ pc' = IF CsvOn THEN "open_csv" ELSE "loop_top"
    /\ UNCHANGED <<cfg, calls, stFile, tmpFile, csvFile, jsonlFile, csvBuf, csv_writer, locals,
                   abortCause, run, h, w>>

OpenCsv ==
    /\ pc = "open_csv"
    /\ csvFile' = IF csvFile = -1 THEN 0 ELSE csvFile
    /\ csv_writer' = TRUE
    /\ pc' = "loop_top"
    /\ UNCHANGED <<cfg, calls, files, stFile, tmpFile, jsonlFile, csvBuf, locals,
                   abortCause, run, h, w>>

----------------------------------------------------------------------------
\* Paging loop (lines 466-549)

LoopTop ==
    /\ pc = "loop_top"
    /\ IF LimitReached(num_items)
       THEN pc' = "final_seal" /\ page' = page
       ELSE pc' = "fetch" /\ page' = page + 1
    /\ UNCHANGED <<cfg, calls, disk, csvBuf, csv_writer, state, num_items, file_index, params,
                   elements, ei, rt, abortCause, run, h, w>>

Fetch ==
    /\ pc = "fetch"
    /\ \E o \in Outcomes :
          IF o # "ok" THEN
              /\ Abort(o)
              /\ UNCHANGED <<cfg, calls, files, stFile, tmpFile, jsonlFile, locals, run, w>>
          ELSE
              /\ elements' = PageItems(params)
              /\ rt' = PageToken(params)
              /\ ei' = 1
              /\ pc' = "write_items"
              /\ UNCHANGED <<cfg, calls, disk, csvBuf, csv_writer, state, num_items, file_index,
                             params, page, abortCause, run, h, w>>

WriteItem ==
    /\ pc = "write_items"
    /\ ei <= Len(elements)
    /\ ~LimitReached(num_items)
    /\ files' = [files EXCEPT ![file_index] = AppendItem(@, Item(elements[ei]))]
    /\ csvBuf' = IF CsvOn /\ csv_writer THEN csvBuf + 1 ELSE csvBuf
    /\ jsonlFile' = IF JsonlOn THEN (IF jsonlFile = -1 THEN 0 ELSE jsonlFile) + 1 ELSE jsonlFile
    /\ num_items' = num_items + 1
    /\ ei' = ei + 1
    /\ w' = [w EXCEPT !.xml = @ + 1,
                      !.csv = IF CsvOn /\ csv_writer THEN @ + 1 ELSE @,
                      !.jsonl = IF JsonlOn THEN @ + 1 ELSE @]
    /\ UNCHANGED <<cfg, calls, stFile, tmpFile, csvFile, csv_writer, pc, state, file_index, params,
                   page, elements, rt, abortCause, run, h>>

WriteEnd ==
    /\ pc = "write_items"
    /\ ei > Len(elements) \/ LimitReached(num_items)
    /\ pc' = IF RotationDue(num_items) THEN "rotate_seal" ELSE "update_state"
    /\ UNCHANGED <<cfg, calls, disk, csvBuf, csv_writer, locals, abortCause, run, h, w>>

RotateSeal ==
    /\ pc = "rotate_seal"
    /\ files' = [files EXCEPT ![file_index] = write_close_wrapper(@, cfg.verb)]
    /\ w' = [w EXCEPT !.seals[file_index] = @ + 1]
    /\ pc' = "rotate_open"
    /\ UNCHANGED <<cfg, calls, stFile, tmpFile, csvFile, jsonlFile, csvBuf, csv_writer, locals,
                   abortCause, run, h>>

RotateOpen ==
    /\ pc = "rotate_open"
    /\ file_index' = file_index + 1
    /\ files' = [files EXCEPT ![file_index + 1] = ensure_open_wrapper(@, cfg.verb)]
    /\ pc' = "update_state"
    /\ UNCHANGED <<cfg, calls, stFile, tmpFile, csvFile, jsonlFile, csvBuf, csv_writer, state,
                   num_items, params, page, elements, ei, rt, abortCause, run, h, w>>

UpdateState ==
    /\ pc = "update_state"
    /\ IF state.kind = "none" THEN
           \* state is None after a restart: state.update raises AttributeError
           /\ Abort("state_none")
           /\ UNCHANGED <<cfg, calls, files, stFile, tmpFile, jsonlFile, locals, run, w>>
       ELSE
           /\ state' = StateUpdate(state, file_index, num_items, rt)
           /\ pc' = "save_tmp"
           /\ UNCHANGED <<cfg, calls, disk, csvBuf, csv_writer, num_items, file_index, params,
                          page, elements, ei, rt, abortCause, run, h, w>>

AfterSave ==
    /\ pc = "after_save"
    /\ IF rt = 0
       THEN pc' = "final_seal" /\ params' = params
       ELSE pc' = "loop_top" /\ params' = TokenParams(rt)
    /\ UNCHANGED <<cfg, calls, disk, csvBuf, csv_writer, state, num_items, file_index, page,
                   elements, ei, rt, abortCause, run, h, w>>

FinalSeal ==
    /\ pc = "final_seal"
    /\ files' = [files EXCEPT ![file_index] = write_close_wrapper(@, cfg.verb)]
    /\ w' = [w EXCEPT !.seals[file_index] = @ + 1]
    /\ pc' = "remove_state"
    /\ UNCHANGED <<cfg, calls, stFile, tmpFile, csvFile, jsonlFile, csvBuf, csv_writer, locals,
                   abortCause, run, h>>

RemoveState ==
    /\ pc = "remove_state"
    /\ stFile' = NoState
    /\ pc' = "done"
    \* finally: close_csv
    /\ csvFile' = csvFile + csvBuf
    /\ csvBuf' = 0
    /\ csv_writer' = FALSE
    /\ UNCHANGED <<cfg, calls, files, tmpFile, jsonlFile, locals, abortCause, run, h, w>>

----------------------------------------------------------------------------

Next ==
    \/ Start
    \/ PreflightIdentify
    \/ PreflightPrefix
    \/ LoadState
    \/ SingleFetch
    \/ SingleWrite
    \/ SingleRemove
    \/ StateInit
    \/ RestartTruncate
    \/ RestartRemove
    \/ SaveTmp
    \/ SaveDump
    \/ SaveReplace
    \/ EnsureOpen
    \/ OpenCsv
    \/ LoopTop
    \/ Fetch
    \/ WriteItem
    \/ WriteEnd
    \/ RotateSeal
    \/ RotateOpen
    \/ UpdateState
    \/ AfterSave
    \/ FinalSeal
    \/ RemoveState
    \/ Crash

Spec == Init /\ [][Next]_vars

----------------------------------------------------------------------------
\* Reading the disk

Last(s) == s[Len(s)]

IsItem(t) == t.k = "item"

\* the harvested items of a file, as their server numbers
ItemIds(f) ==
    LET its == SelectSeq(f.data, IsItem) IN [j \in 1..Len(its) |-> its[j].i]

RECURSIVE ItemsUpTo(_)
ItemsUpTo(n) == IF n = 0 THEN <<>> ELSE ItemsUpTo(n - 1) \o ItemIds(files[n])

\* the harvested items of all segments, in segment order
AllItems == ItemsUpTo(MaxSeg)

Upto(n) == [j \in 1..n |-> j]

\* one opening envelope of the verb, then items, then one closing envelope
WellFormed(f, verb) ==
    /\ f.ex
    /\ Len(f.data) >= 2
    /\ f.data[1] = wrapper_open_tag(verb)
    /\ Last(f.data) = wrapper_close_tag(verb)
    /\ \A j \in 2..(Len(f.data) - 1) : f.data[j].k \in {"item", "old", "resp"}

Sealed(f) == f.ex /\ f.data # <<>> /\ Last(f.data) = wrapper_close_tag(cfg.verb)

\* the number of items the server hands out before the limit stops the run
Harvestable == IF cfg.max_items = NoLimit THEN cfg.T ELSE Min(cfg.T, cfg.max_items)

----------------------------------------------------------------------------
\* One uninterrupted run of the paging loop as a function of the disk it
\* starts on: fs the segments, n = num_items, fi = file_index, p = params at
\* the top of the loop

RECURSIVE RefLoop(_, _, _, _)
RefLoop(fs, n, fi, p) ==
    IF LimitReached(n) THEN [fs EXCEPT ![fi] = write_close_wrapper(@, cfg.verb)]
    ELSE LET els == PageItems(p)
             k == IF cfg.max_items = NoLimit THEN Len(els)
                  ELSE Min(Len(els), cfg.max_items - n)
             fs1 == [fs EXCEPT ![fi] = File(@.data \o [j \in 1..k |-> Item(els[j])])]
             n1 == n + k
             rot == RotationDue(n1)
             fs2 == IF rot
                    THEN [fs1 EXCEPT ![fi] = write_close_wrapper(@, cfg.verb),
                                     ![fi + 1] = ensure_open_wrapper(@, cfg.verb)]
                    ELSE fs1
             fi2 == IF rot THEN fi + 1 ELSE fi
             t == PageToken(p)
         IN IF t = 0 THEN [fs2 EXCEPT ![fi2] = write_close_wrapper(@, cfg.verb)]
            ELSE RefLoop(fs2, n1, fi2, TokenParams(t))

RefFiles ==
    LET d == Disk0(cfg.disk0, cfg.verb)
    IN RefLoop([d EXCEPT ![1] = ensure_open_wrapper(@, cfg.verb)], 0, 1, oai_params_first_call(cfg.prefix))

\* the step model and the function agree on every first, uninterrupted run
RefRunAgrees == (pc = "done" /\ Paginated /\ run = 1) => files = RefFiles

----------------------------------------------------------------------------
\* C1: a harvest stopped after page k (its items written, its checkpoint with
\* a token saved) and resumed ends with the output of one uninterrupted run:
\* same segments, every item once, in server order, each segment one envelope.
C1_ResumeEquivalent ==
    (pc = "done" /\ Paginated /\ h.clean /\ h.resumed) =>
        /\ files = RefFiles
        /\ AllItems = Upto(Harvestable)
        /\ \A i \in 1..file_index : WellFormed(files[i], cfg.verb)

C1_Witness ==
    /\ pc = "done" /\ Paginated /\ h.clean /\ h.resumed
    /\ w.decision = "resume" /\ w.start > 0 /\ w.xml > 0
    /\ file_index > 1
    /\ AllItems = Upto(cfg.T) /\ cfg.T = MaxTotal

\* C2: whatever the point of the paging loop at which the process was
\* terminated, the resumed harvest ends with no item duplicated and none
\* missing.
C2_NoDuplicateNoMissing ==
    (pc = "done" /\ Paginated /\ cfg.disk0 = "clean" /\ cfg.st0 = "absent"
        /\ h.resumed /\ h.loopStops /\ ~h.restarted /\ ~h.reran) =>
        AllItems = Upto(Harvestable)

\* C3: after a successful completion every segment file is one opening
\* envelope of the verb, items, one closing envelope, whatever was at the
\* output paths before.
C3_EnvelopeValid ==
    pc = "done" => \A i \in 1..MaxSeg : files[i].ex => WellFormed(files[i], cfg.verb)

\* C4: after a completed harvest of T items with rotate_every = R the sealed
\* segments holding exactly R items number floor(T/R), and the final segment
\* holds T mod R items (or R, or nothing, when R divides T).
C4_RotationCount ==
    (pc = "done" /\ Paginated /\ cfg.rotate_every # NoRotate /\ run = 1 /\ cfg.disk0 = "clean") =>
        LET R == cfg.rotate_every
            T == num_items
            full == {i \in 1..MaxSeg : Sealed(files[i]) /\ Len(ItemIds(files[i])) = R}
            final == Len(ItemIds(files[file_index]))
        IN /\ Cardinality(full) = T \div R
           /\ final = T % R \/ (T % R = 0 /\ final = R)

\* C5: with max_items = M the run never counts or writes more than M items
\* (XML elements, csv rows, jsonl rows) and issues no page request once the
\* count has reached M.
C5_LimitEnforced ==
    cfg.max_items # NoLimit =>
        /\ num_items <= cfg.max_items
        /\ w.start + w.xml <= cfg.max_items
        /\ w.start + w.csv <= cfg.max_items
        /\ w.start + w.jsonl <= cfg.max_items
        /\ pc = "fetch" => num_items < cfg.max_items
        /\ h.clean => /\ Len(AllItems) <= cfg.max_items
                      /\ csvFile + csvBuf <= cfg.max_items
                      /\ jsonlFile <= cfg.max_items

C5_Witness ==
    /\ pc = "done" /\ cfg.max_items # NoLimit /\ cfg.max_items > 0
    /\ num_items = cfg.max_items
    /\ rt # 0 /\ ei <= Len(elements)
    /\ cfg.dump_mode = "beide"
    /\ csvFile = cfg.max_items /\ jsonlFile = cfg.max_items
    /\ Len(AllItems) = cfg.max_items

PagingError ==
    /\ pc = "aborted"
    /\ abortCause.at = "fetch"
    /\ abortCause.why \in {"fetch_error", "xml_error"}

\* C6 (as stated): on every terminal path of a paginated run, fatal errors
\* during paging included, the open segment is sealed exactly once and ends
\* with its closing tags.
C6_SealedOnEveryTerminalPath ==
    (Paginated /\ (pc = "done" \/ PagingError)) =>
        /\ w.seals[file_index] = 1
        /\ Sealed(files[file_index])

\* C6 (amended): on success and on the item limit the open segment is sealed
\* exactly once and every segment the run wrote to ends with its closing
\* tags; no segment is sealed twice; on a fatal error during paging the open
\* segment is not sealed.
C6_SealedOnSuccessOnly ==
    Paginated =>
        /\ \A i \in 1..MaxSeg : w.seals[i] <= 1
        /\ pc = "done" => \A i \in w.first..file_index :
                              w.seals[i] = 1 /\ Sealed(files[i])
        /\ PagingError => w.seals[file_index] = 0

C6_Witness ==
    /\ Paginated /\ pc = "done" /\ w.decision = "resume"
    /\ w.first = 2 /\ file_index = 3
    /\ Sealed(files[2]) /\ Sealed(files[3])

\* C7: when the run aborts on a fetch or XML error during paging, the
\* checkpoint file holds what was saved after the last processed page (item
\* count, file index, token of the failed request), the open segment has no
\* closing tags appended, and on a first run the segments hold exactly the
\* items the checkpoint counts.
C7_AbortLeavesResumable ==
    PagingError =>
        /\ stFile = state
        /\ state.kind = "valid" =>
              /\ state.num_items = num_items
              /\ state.file_index = file_index
              /\ state.rt = params.rt
        /\ state.kind = "none" =>
              /\ w.decision = "restart"
              /\ num_items = 0 /\ file_index = 1 /\ params = oai_params_first_call(cfg.prefix)
        /\ w.seals[file_index] = 0
        /\ files[file_index].ex
        /\ files[file_index].data # <<>>
        /\ ~Sealed(files[file_index])
        /\ (run = 1 /\ cfg.disk0 = "clean") =>
              /\ AllItems = Upto(num_items)
              /\ tmpFile = NoState

C7_Witness ==
    /\ PagingError /\ abortCause.why = "xml_error"
    /\ run = 1
    /\ num_items >= 2 /\ file_index = 2
    /\ stFile.kind = "valid" /\ stFile.rt # 0 /\ stFile.num_items = num_items

\* C8: a failed Identify preflight never ends the run; a metadata prefix the
\* server does not advertise ends a ListRecords/ListIdentifiers run in the
\* prefix check, and no step up to and including the preflight changes a
\* segment, the checkpoint, its temporary file or an export sink.
C8_Preflight ==
    [][/\ pc = "preflight_identify" => pc' \in {"preflight_prefix", "load_state", "stopped"}
       /\ pc \in {"idle", "done", "aborted", "stopped", "preflight_identify", "preflight_prefix"}
             => UNCHANGED disk
       /\ (Paginated /\ cfg.prefix # "" /\ ~cfg.advertised)
             => pc' \in {"preflight_identify", "preflight_prefix", "aborted", "stopped"}
       /\ (pc' = "aborted" /\ abortCause'.why = "prefix")
             => pc = "preflight_prefix" /\ ~cfg.advertised]_vars

C8_Witness ==
    /\ pc = "aborted" /\ abortCause.why = "prefix" /\ abortCause.at = "preflight_prefix"
    /\ ~cfg.identify_ok
    /\ files = Disk0(cfg.disk0, cfg.verb) /\ csvFile = -1 /\ jsonlFile = -1

\* C9: after the operator chose restart the run harvests page after page to
\* normal completion; it ends early only on a fetch or XML error.
C9_RestartCompletes ==
    (pc = "aborted" /\ w.decision = "restart") =>
        abortCause.why \in {"fetch_error", "xml_error"}

\* C10: a checkpoint file that is not valid JSON is treated as absent: the
\* run is not ended by loading it.
C10_CorruptTreatedAsAbsent ==
    pc = "aborted" => abortCause.at # "load_state"

\* C11: save_state is atomic with respect to a stop at any step: whenever the
\* content of the checkpoint path changes, the path does not exist afterwards
\* (remove_state) or holds one complete state, the new one; it never comes to
\* hold a partially written one.
C11_SaveAtomic ==
    [][stFile' # stFile =>
          \/ stFile' = NoState
          \/ /\ stFile'.kind = "valid"
             /\ stFile' = state
             /\ pc \in {"init_save_replace", "save_replace"}]_vars

\* the process was stopped inside save_state, between open(tmp) and the end
\* of json.dump, after an earlier page's checkpoint was saved: the temporary
\* file is partial, the checkpoint is the complete earlier one
C11_Witness ==
    /\ pc = "stopped"
    /\ tmpFile.kind = "corrupt"
    /\ stFile.kind = "valid" /\ stFile.num_items > 0 /\ stFile.rt # 0
    /\ cfg.st0 = "absent"

\* C15: every page request either carries no resumptionToken (verb and the
\* invocation's metadataPrefix) or carries a non-empty resumptionToken and no
\* metadataPrefix; the first request of an invocation carries the token of the
\* checkpoint (none on a fresh start or a restart), every later request the
\* token the page before it returned.
C15_RequestParams ==
    pc = "fetch" =>
        /\ params.rt = 0 => params = oai_params_first_call(cfg.prefix)
        /\ params.rt # 0 => params.prefix = ""
        /\ page = 1 => params.rt = stFile.rt
        /\ page > 1 => (rt # 0 /\ params.rt = rt)

\* a resumed invocation about to request the second page it fetches
C15_Witness ==
    /\ pc = "fetch" /\ page = 2
    /\ w.decision = "resume" /\ w.start > 0
    /\ cfg.prefix # "" /\ params = TokenParams(rt) /\ rt # 0

\* C16: a checkpoint of another verb or another output base name is never
\* resumed from: the invocation that finds it starts fresh, counts items and
\* segments from the start, sends the first-call query with its own
\* metadataPrefix, and ends with the files of a run that found no checkpoint.
C16_MismatchIgnored ==
    (Paginated /\ run = 1 /\ cfg.st0 \in {"other_verb", "other_base"}) =>
        /\ w.decision \in {"", "fresh"}
        /\ w.start = 0 /\ w.first = 1
        /\ pc \in LoopPcs => num_items = w.xml
        /\ (pc = "fetch" /\ page = 1) => params = oai_params_first_call(cfg.prefix)
        /\ pc \in LoopPcs \ {"update_state"} =>
              /\ state.kind = "valid" /\ state.verb = cfg.verb /\ state.out_base = OutBase
              /\ state.prefix = cfg.prefix
              /\ state.num_items <= num_items
        /\ pc = "done" => files = RefFiles

\* a run that found the checkpoint of another output base (2 items, segment
\* 2, a token, prefix "edm") and harvested the server's one item without a
\* metadataPrefix
C16_Witness ==
    /\ pc = "done" /\ run = 1 /\ Paginated
    /\ cfg.st0 = "other_base" /\ cfg.prefix = "" /\ cfg.T = 1
    /\ AllItems = <<1>> /\ file_index = 1 /\ stFile = NoState

\* the segment that received the items of the page just processed: the one
\* before the current segment when the page ended with a rotation
PageSegment == IF RotationDue(num_items) THEN file_index - 1 ELSE file_index

\* s ends with t
EndsWith(s, t) ==
    /\ Len(t) <= Len(s)
    /\ SubSeq(s, Len(s) - Len(t) + 1, Len(s)) = t

\* C17: the request for the page after page k is issued only after every item
\* of page k is in the segment and the checkpoint file holds page k's item
\* count, file index and resumption token, which is the token requested.
C17_NextPageAfterSave ==
    (pc = "fetch" /\ page > 1) =>
        /\ ei = Len(elements) + 1
        /\ EndsWith(ItemIds(files[PageSegment]), elements)
        /\ stFile.kind = "valid"
        /\ stFile.num_items = num_items
        /\ stFile.file_index = file_index
        /\ stFile.rt = rt /\ params.rt = rt /\ rt # 0
        /\ tmpFile = NoState

\* about to request the second page after a full first page that ended with
\* a rotation
C17_Witness ==
    /\ pc = "fetch" /\ page = 2 /\ w.decision = "fresh"
    /\ Len(elements) = MaxPage /\ file_index = 2 /\ RotationDue(num_items)
    /\ stFile.num_items = MaxPage

\* the positions of a paginated run from the return of ensure_open_wrapper to
\* the end of the paging loop at which the current segment is being filled
FillingPcs == {"open_csv", "loop_top", "fetch", "write_items", "rotate_seal",
               "update_state", "save_tmp", "save_dump", "save_replace", "after_save"}

\* C20: at every point of the paging loop the current segment file begins
\* with the opening envelope of the current verb and does not end with a
\* closing envelope, whatever file was at its path before.
C20_SegmentOpenInLoop ==
    (Paginated /\ pc \in FillingPcs) =>
        /\ files[file_index].ex
        /\ files[file_index].data # <<>>
        /\ Head(files[file_index].data) = wrapper_open_tag(cfg.verb)
        /\ Last(files[file_index].data).k # "close"

\* the steps the running process takes by itself: it is never started, and
\* never terminated, by its own doing
Step ==
    \/ PreflightIdentify \/ PreflightPrefix \/ LoadState
    \/ SingleFetch \/ SingleWrite \/ SingleRemove
    \/ StateInit \/ RestartTruncate \/ RestartRemove
    \/ SaveTmp \/ SaveDump \/ SaveReplace
    \/ EnsureOpen \/ OpenCsv
    \/ LoopTop \/ Fetch \/ WriteItem \/ WriteEnd \/ RotateSeal \/ RotateOpen
    \/ UpdateState \/ AfterSave \/ FinalSeal \/ RemoveState

\* a started process keeps running until it returns, raises or is terminated
FairSpec == Init /\ [][Next]_vars /\ WF_vars(Step)

\* the invocation ended because a fetch failed or the process was terminated
FetchFailedOrKilled ==
    \/ pc = "stopped"
    \/ pc = "aborted" /\ abortCause.why \in {"fetch_error", "xml_error"}

\* SEALED: the current segment closed, the checkpoint removed
SEALED ==
    /\ pc = "done"
    /\ Sealed(files[file_index])
    /\ stFile = NoState

\* C18: a paginated harvest that has entered its paging loop, whose fetches
\* all succeed and which is not terminated from outside, eventually ends
\* SEALED (the server's pages are finite: cfg.T items).
C18_TerminatesSealed ==
    (Paginated /\ pc = "loop_top") ~> (SEALED \/ FetchFailedOrKilled)

----------------------------------------------------------------------------
\* Claims about safe_open_url, checked under SafeOpenUrlSpec

SouCalled == url_call.pc # "not_called"

\* C12: a failure to decompress the body is not retried: it is raised at
\* once, with no backoff wait and no further GET, even when attempts remain.
C12_DecompressNotRetried ==
    (SouCalled /\ url_call.last_err.kind = "decompress") => url_call.pc = "raised"

\* C13: the wait before a retry after a 429 or 503 with a numeric Retry-After
\* of r is at least r; the wait before every other retry is backoff times the
\* number of the failed attempt, counted from 1; an exception leaves the
\* function only at the last attempt, so fewer than 'retries' failures
\* followed by a 200 return that reply.
C13_RetryWaits ==
    SouCalled =>
        LET e == url_call.last_err
            attemptNumber == url_call.attempt + 1
        IN /\ url_call.pc = "sleep" =>
                IF e.kind = "http" /\ e.status \in {429, 503} /\ e.retry_after >= 0
                THEN /\ url_call.wait >= e.retry_after
                     /\ url_call.wait >= url_call.backoff * attemptNumber
                     /\ url_call.wait \in {e.retry_after, url_call.backoff * attemptNumber}
                ELSE url_call.wait = url_call.backoff * attemptNumber
           /\ url_call.pc = "raised" => url_call.gets = url_call.retries
           /\ url_call.pc = "returned" =>
                /\ url_call.result.kind = "ok" /\ url_call.result.status = 200
                /\ url_call.gets = url_call.attempt + 1
                /\ url_call.sleeps = url_call.attempt

\* two failures, the second a 503 with a Retry-After longer than the backoff
\* wait, then a 200 on the last attempt
C13_Witness ==
    /\ SouCalled
    /\ url_call.pc = "returned" /\ url_call.retries = 3 /\ url_call.gets = 3
    /\ url_call.last_err.status = 503
    /\ url_call.last_err.retry_after = MaxRetryAfter
    /\ url_call.backoff = 1 /\ url_call.wait = MaxRetryAfter

\* C19: for every attempt count, 0 and 1 included, the call issues at most
\* that many GETs and ends either by returning a response or by raising the
\* error of the last attempt.
C19_ReturnsOrRaises ==
    SouCalled =>
        /\ url_call.gets <= url_call.retries
        /\ url_call.pc \in {"for", "urlopen", "sleep", "returned", "raised"}
        /\ url_call.pc = "returned" => url_call.result.kind = "ok"
        /\ url_call.pc = "raised" =>
              url_call.last_err # NoReply /\ url_call.gets = url_call.retries

----------------------------------------------------------------------------
\* Claim about extract_edm_field_from_record, checked under ExtractSpec

\* C14: asked for edm:isShownAt on a record whose metadata has none, the
\* function returns the text of edm:isShownBy when that element is present,
\* the text of dc:identifier only when edm:isShownBy is absent, and the empty
\* string when all three are absent.  (Stated for elements that have a text
\* value; an element without text has no text to return.)
C14_DisplayFallback ==
    (/\ edm_call.pc = "returned"
     /\ edm_call.edm_field_qname = "edm:isShownAt"
     /\ edm_call.record_el.md
     /\ ~edm_call.record_el.at.present) =>
        LET by == edm_call.record_el.by
            id == edm_call.record_el.id
        IN /\ by.text = "value" => edm_call.value = Strip(by)
           /\ (~by.present /\ id.text = "value") => edm_call.value = Strip(id)
           /\ (~by.present /\ ~id.present) => edm_call.value = ""

----------------------------------------------------------------------------
\* Claims about what a fresh run leaves on disk

\* C23: a fresh first run of a paginated verb leaves, on completion, only
\* items fetched during the run in every segment it wrote, also when a file of
\* an earlier completed harvest was at the base path or at a _part path.
C23_FreshOnlyOwnItems ==
    (Paginated /\ pc = "done" /\ run = 1 /\ w.decision = "fresh") =>
        \A i \in 1..file_index :
            \A j \in 1..Len(files[i].data) : files[i].data[j].k # "old"

\* the checkpoint file gets a new complete content in a fresh first run
FreshSave ==
    /\ run = 1 /\ w.decision = "fresh"
    /\ stFile' # stFile /\ stFile'.kind = "valid"

\* what every checkpoint of a fresh first run records
SavedFields ==
    /\ stFile'.num_items = num_items /\ num_items = w.xml
    /\ stFile'.file_index = file_index /\ file_index >= 1
    /\ stFile'.rt = rt
    /\ Matches(stFile) =>
          /\ stFile'.num_items >= stFile.num_items
          /\ stFile'.file_index =
                stFile.file_index + (IF RotationDue(num_items) THEN 1 ELSE 0)

\* the segment the checkpoint names exists and is not sealed
NamedSegmentOpen ==
    /\ files[file_index].ex
    /\ ~Sealed(files[file_index])
    /\ w.seals[file_index] = 0

\* C24 as stated: every checkpoint written in an uninterrupted fresh run has
\* the number of items written so far, the token of the last processed page
\* and the index of the segment that is open at that moment; num_items never
\* decreases and file_index grows by one per rotation.
C24_CheckpointNamesOpenSegment ==
    [][FreshSave => (SavedFields /\ NamedSegmentOpen)]_vars

\* C24, amended: the same, where the first checkpoint (line 458, written
\* before ensure_open_wrapper) names the segment about to be opened and every
\* checkpoint of the paging loop names the segment being filled, which exists
\* and is not sealed.
C24_CheckpointConsistent ==
    [][FreshSave =>
          /\ SavedFields
          /\ pc \in {"init_save_replace", "save_replace"}
          /\ pc = "init_save_replace" => (num_items = 0 /\ file_index = 1 /\ rt = 0)
          /\ pc = "save_replace" => NamedSegmentOpen]_vars

\* the checkpoint of a page that ended with a rotation, a further page to come
C24_Witness ==
    /\ pc = "after_save" /\ run = 1 /\ w.decision = "fresh"
    /\ stFile.kind = "valid" /\ stFile.file_index = 2 /\ stFile.num_items = w.xml
    /\ w.xml = MaxPage /\ stFile.rt # 0
    /\ files[2].ex /\ ~Sealed(files[2])

----------------------------------------------------------------------------
\* Claim about the repair pass, checked under RepairSpec

\* the characters of s between positions i and j, both excluded
Between(s, i, j) == SubSeq(s, i + 1, j - 1)

\* a name: a letter, then letters, digits and other name characters
IsName(b) ==
    /\ Len(b) >= 1
    /\ b[1] \in Letters
    /\ \A k \in 2..Len(b) : b[k] \in Letters \cup Digits \cup {"-"}

\* "#" and decimal digits, or "#x" and hexadecimal digits
IsCharNumber(b) ==
    \/ /\ Len(b) >= 2 /\ b[1] = "#"
       /\ \A k \in 2..Len(b) : b[k] \in Digits
    \/ /\ Len(b) >= 3 /\ b[1] = "#" /\ b[2] = "x"
       /\ \A k \in 3..Len(b) : b[k] \in HexDigits

\* the "&" at position i begins a valid entity reference
BeginsReference(s, i) ==
    \E j \in (i + 1)..Len(s) :
        /\ s[j] = ";"
        /\ IsName(Between(s, i, j)) \/ IsCharNumber(Between(s, i, j))

\* s with exactly the "&" that begin no valid reference replaced by "&amp;"
RECURSIVE EscapedFrom(_, _)
EscapedFrom(s, i) ==
    IF i > Len(s) THEN <<>>
    ELSE (IF s[i] = "&" /\ ~BeginsReference(s, i)
          THEN <<"&", "a", "m", "p", ";">>
          ELSE <<s[i]>>) \o EscapedFrom(s, i + 1)

\* C21: the repair pass replaces by "&amp;" exactly the "&" that begin no
\* valid entity reference (a name, "#" and digits, or "#x" and hexadecimal
\* digits, up to ";"), changes no other character, and repairing the
\* repaired text changes nothing.
C21_RepairExact ==
    /\ amp_call.pc \in {"repaired", "repaired_again"} =>
          amp_call.repaired = EscapedFrom(amp_call.text, 1)
    /\ amp_call.pc = "repaired_again" => amp_call.again = amp_call.repaired

----------------------------------------------------------------------------
\* Claim about sealing and reopening, checked under SealReopenSpec

\* C22: for any open segment content C, multi-byte UTF-8 characters
\* included, write_close_wrapper followed by ensure_open_wrapper leaves the
\* file byte-identical to C: the file is truncated exactly at the byte offset
\* where the closing tags start and no item byte is removed.
C22_SealReopenRoundTrip ==
    wrap_call.pc = "reopened" =>
        /\ wrap_call.cut = Len(wrap_call.content)
        /\ wrap_call.file = wrap_call.content

====
